---- MODULE Spec2Model ----
(***************************************************************************)
(* Model of the extract -> validate -> heal pipeline:                      *)
(*   gemini_extractor.py  (Extraction Stage),                              *)
(*   validation_agent.py  (Validation Stage, severity reconciliation),     *)
(*   do_it_all.py         (Self-Healing Orchestrator).                     *)
(*                                                                         *)
(* The three spreadsheet files are the persistent state.  A stage is a     *)
(* subprocess that is run to completion before its caller goes on; one     *)
(* step of a stage is the whole body of its per-document loop.  The remote *)
(* agent is the environment: each turn's outcome is a nondeterministic     *)
(* choice over the values the turn can return.                             *)
(***************************************************************************)
EXTENDS Integers, Sequences, FiniteSets, TLC

\* ------------------------------------------------------------------------
\* Bounds of the model
\* ------------------------------------------------------------------------

\* Longest discrepancy list of an agent reply in SpecReconcile.
MaxDiscrepancies == 3

\* Number of commands (stage runs started by hand, orchestrator runs) issued in
\* one behaviour of Spec.
MaxCmds == 1

\* Longest reply text of the agent in SpecTurn, in characters.
MaxReplyLen == 3

\* Longest list of documents of a stage run in SpecTurn.
MaxQueue == 2


\* ------------------------------------------------------------------------
\* Values
\* ------------------------------------------------------------------------

\* JSON null / pandas NaN / an empty spreadsheet cell.
Null == "<null>"

\* dict.get(key) on a missing key.
Absent == "<absent>"

\* A text value that pandas' read_excel takes for a missing value
\* (its default na_values: "N/A", "NA", "NULL", "None", "null", "nan", ...).
NaToken == "N/A"

\* A JSON number with an integral value (e.g. a sample size).
Int120 == "int:120"

\* File names are character sequences, so that the substring test of the resume
\* logic is computed and not assumed: "t.pdf" is a substring of "st.pdf".
DocT == <<"t", ".">>
DocST == <<"s", "t", ".">>
AllDocs == {DocT, DocST}

\* os.listdir(ARTICLES_DIR): an arbitrary but fixed order.
ListDir == <<DocST, DocT>>

\* The --limit values tried; 0 stands for no --limit.
Limits == {0, 1}

\* The --files lists tried for a stage started by hand.
FileLists == {<<DocT>>, <<DocST>>, <<DocT, DocST>>}

\* ALL_COLUMNS, cut down to two columns.
ALL_COLUMNS == <<"X", "Y">>
FieldNames == {ALL_COLUMNS[i] : i \in DOMAIN ALL_COLUMNS}

\* ------------------------------------------------------------------------
\* State
\* ------------------------------------------------------------------------

VARIABLES
    corpus,          \* the *.pdf entries of ARTICLES_DIR
    output_file,     \* OUTPUT_FILE / INPUT_FILE (extracted_studies.xlsx): its rows
    validation_log,  \* VALIDATION_LOG / DISCREPANCY_FILE: its rows, <<>> = no file
    healing_report,  \* HEALING_REPORT: its rows, <<>> = no file
    orch,            \* do_it_all.main: where it is, and its locals
    proc,            \* the stage subprocess: where it is, and its locals
    cmds,            \* number of commands issued so far
    agent_reply,     \* the parsed reply [status, discrepancies]
    data,            \* SpecReconcile: <<the dict returned>>, <<>> before the call
    turn             \* SpecTurn: a stage loop seen turn step by turn step

pvars == <<corpus, output_file, validation_log, healing_report, orch, proc, cmds>>
rvars == <<agent_reply, data, turn>>
vars == <<pvars, rvars>>

\* ------------------------------------------------------------------------
\* Sequence helpers
\* ------------------------------------------------------------------------

RECURSIVE SelectRows(_, _)
\* [x for x in s if x.sf in names]  (df[df['Source File'].isin(names)])
SelectRows(s, names) ==
    IF s = <<>> THEN <<>>
    ELSE IF Head(s).sf \in names
         THEN <<Head(s)>> \o SelectRows(Tail(s), names)
         ELSE SelectRows(Tail(s), names)

Range(s) == {s[i] : i \in DOMAIN s}

RECURSIVE SeqsUpTo(_, _)
\* All sequences over S of length at most n.
SeqsUpTo(S, n) ==
    IF n = 0 THEN {<<>>}
    ELSE LET shorter == SeqsUpTo(S, n - 1)
         IN shorter \cup {Append(s, x) : s \in {t \in shorter : Len(t) = n - 1}, x \in S}

RECURSIVE RejectRows(_, _)
\* df[~df['Source File'].isin(names)]
RejectRows(s, names) ==
    IF s = <<>> THEN <<>>
    ELSE IF Head(s).sf \notin names
         THEN <<Head(s)>> \o RejectRows(Tail(s), names)
         ELSE RejectRows(Tail(s), names)

RECURSIVE Unique(_)
\* Series.unique(): the distinct values in order of first appearance.
Unique(s) ==
    IF s = <<>> THEN <<>>
    ELSE LET r == Unique(SubSeq(s, 1, Len(s) - 1))
             x == s[Len(s)]
         IN IF x \in Range(r) THEN r ELSE Append(r, x)

\* Python's `a in b` on strings.
IsSubstring(a, b) ==
    \E i \in 0..(Len(b) - Len(a)) : SubSeq(b, i + 1, i + Len(a)) = a

\* ------------------------------------------------------------------------
\* validation_agent.interact_with_gemini: severity reconciliation
\* ------------------------------------------------------------------------

\* The values of data['status'] the model distinguishes: the two the prompt asks
\* for, one other string, and a reply without the key.
AgentStatuses == {"PASS", "FAIL", "UNSURE", Absent}

\* The values of d['severity'].
Severities == {"CRITICAL", "MINOR", "MAJOR", Absent}

\* d.get('severity', default)
GetSeverity(d, default) == IF d.severity = Absent THEN default ELSE d.severity

\* [d for d in discrepancies if d.get('severity') == 'CRITICAL']
CriticalStrict(D) == {i \in DOMAIN D : GetSeverity(D[i], Null) = "CRITICAL"}

\* [d for d in discrepancies if d.get('severity', 'CRITICAL') == 'CRITICAL']
CriticalDefault(D) == {i \in DOMAIN D : GetSeverity(D[i], "CRITICAL") = "CRITICAL"}

\* Mutant of Downgrade: the reported status is kept.
DowngradeNever(status, D) == status

\* Lines 208-212: FAIL with a non-empty list and no CRITICAL item becomes PASS.
Downgrade(status, D) ==
    IF status = "FAIL" /\ D # <<>> /\ CriticalStrict(D) = {}
    THEN "PASS" ELSE status

\* Mutant of Override: PASS is forced to FAIL as soon as anything is listed.
OverrideAnyDiscrepancy(status, D) ==
    IF status = "PASS" /\ D # <<>> THEN "FAIL" ELSE status

\* Mutant of Override: only an item marked CRITICAL forces FAIL.
OverrideMarkedOnly(status, D) ==
    IF status = "PASS" /\ D # <<>> /\ CriticalStrict(D) # {}
    THEN "FAIL" ELSE status

\* Lines 216-220: PASS with a non-empty list holding a CRITICAL (or unmarked)
\* item becomes FAIL.
Override(status, D) ==
    IF status = "PASS" /\ D # <<>> /\ CriticalDefault(D) # {}
    THEN "FAIL" ELSE status

\* The status of the dict returned at line 222.
Reconcile(status, D) == Override(Downgrade(status, D), D)

\* ------------------------------------------------------------------------
\* The spreadsheet files, as pandas writes and reads them
\* ------------------------------------------------------------------------

\* pd.read_excel on one cell: a text cell holding one of the default na_values
\* is read as NaN.
ReadCell(v) == IF v = NaToken THEN Null ELSE v

\* pd.read_excel(OUTPUT_FILE): the rows of the file as a DataFrame.
read_excel(rows) ==
    [i \in DOMAIN rows |->
        [sf |-> rows[i].sf, f |-> [c \in FieldNames |-> ReadCell(rows[i].f[c])]]]

\* The dtype pandas infers for column c of a DataFrame read from a file:
\* integers only -> int64, integers and NaN (or NaN only) -> float64,
\* any text -> object.
ColDtype(df, c) ==
    LET cells == {df[i].f[c] : i \in DOMAIN df}
    IN IF cells \ {Null} = {} THEN "float64"
       ELSE IF cells \ {Null} = {Int120}
            THEN (IF Null \in cells THEN "float64" ELSE "int64")
            ELSE "object"

Dtypes(df) == [c \in FieldNames |-> ColDtype(df, c)]

\* The dtype of one row taken out of a DataFrame (df.loc[[k]].iloc[0]): the
\* common type of its columns.
RowDtype(dtypes) ==
    IF \E c \in FieldNames : dtypes[c] = "object" THEN "object"
    ELSE IF \E c \in FieldNames : dtypes[c] = "float64" THEN "float64"
    ELSE "int64"

\* str(row[col]) if pd.notnull(row[col]) else "NULL": an integer prints as
\* "120" out of an int64 or object column and as "120.0" once the column or the
\* row has been cast to float64.
StrOrNull(v, dtypes, c) ==
    IF v = Null THEN "NULL"
    ELSE IF v = Int120
         THEN (IF dtypes[c] = "float64" \/ RowDtype(dtypes) = "float64"
               THEN "120.0" ELSE "120")
         ELSE v

SourceFiles(rows) == {rows[i].sf : i \in DOMAIN rows}

\* Mutant of clean_data: the meta column Source File is not left out.
clean_data_keeps_meta(row) == {c \in FieldNames : row.f[c] # Null} \cup {"Source File"}

\* validation_agent.main, lines 397-398: the columns of the row that hold data,
\* the meta columns left out.
clean_data(row) == {c \in FieldNames : row.f[c] # Null}

\* ------------------------------------------------------------------------
\* The remote agent's replies (the environment)
\* ------------------------------------------------------------------------

\* The field values a parsed extraction reply can carry in Spec.
ReplyVectors ==
    { [X |-> Null,  Y |-> Null],
      [X |-> "50%", Y |-> Int120],
      [X |-> "52%", Y |-> NaToken] }

\* extract_data_from_page returns: <<>> for None, <<dict>> for the parsed reply.
ExtractResults == {<<>>} \cup {<<v>> : v \in ReplyVectors}

\* What a validation turn ends with before reconciliation:
\*   "none"    interact_with_gemini returned None (upload or interaction failed),
\*   "nojson"  the reply held no JSON object: the ERROR dict,
\*   "object"  a parsed object with a status and a discrepancy list.
ValidationReplies ==
    { [kind |-> k, status |-> Absent, discrepancies |-> <<>>] :
          k \in {"none", "nojson"} }
    \cup
    { [kind |-> "object", status |-> st, discrepancies |-> D] :
          st \in {"PASS", "FAIL"},
          D \in { <<>>, <<[field |-> "X", severity |-> "CRITICAL"]>> } }

\* interact_with_gemini's return value for a reply: <<>> for a falsy result,
\* <<dict>> otherwise.
interact_with_gemini(reply) ==
    CASE reply.kind = "none" -> <<>>
      [] reply.kind = "nojson" ->
            <<[status |-> "ERROR", discrepancies |-> <<>>]>>
      [] OTHER ->
            <<[status |-> Reconcile(reply.status, reply.discrepancies),
               discrepancies |-> reply.discrepancies]>>

\* ------------------------------------------------------------------------
\* The stage subprocess
\* ------------------------------------------------------------------------

\* No stage has been run yet, or the record of the last run has been dropped.
NoProc ==
    [script |-> "none", running |-> FALSE, launched |-> FALSE, returncode |-> 0,
     writing |-> FALSE, df_to_write |-> <<>>, files |-> <<>>, limit |-> 0,
     pdf_files |-> <<>>, df |-> <<>>, targets |-> <<>>, trace |-> <<>>,
     validation_results |-> <<>>, full_df |-> <<>>, start |-> <<>>]

Min(a, b) == IF a < b THEN a ELSE b

\* The exit codes of a stage process: 0 when main returns, also from its early
\* returns; 1 when an exception leaves main before the loop (no file is
\* written then, as when launched = FALSE).
ExitCodes(launched) == IF launched THEN {0} ELSE {0, 1}

\* do_it_all.run_script: False when the stage exited with an error.
run_script(p) == p.returncode = 0

\* Mutant of pdf_files_of: --files is ignored and the corpus is always scanned.
pdf_files_of_scan(files, limit, store) ==
    LET InCorpus(f) == f \in corpus
        processed_files == SourceFiles(read_excel(store))
        NotSkipped(pf) == ~ \E recorded \in processed_files : IsSubstring(pf, recorded)
        remaining == SelectSeq(SelectSeq(ListDir, InCorpus), NotSkipped)
    IN IF limit # 0 THEN SubSeq(remaining, 1, Min(limit, Len(remaining)))
       ELSE remaining

\* gemini_extractor.main, lines 240-262: the list of documents to process.
\* files = <<>> is the corpus scan; limit = 0 stands for no --limit.
pdf_files_of(files, limit, store) ==
    LET InCorpus(f) == f \in corpus
        processed_files == SourceFiles(read_excel(store))
        NotSkipped(pf) == ~ \E recorded \in processed_files : IsSubstring(pf, recorded)
        remaining == SelectSeq(SelectSeq(ListDir, InCorpus), NotSkipped)
    IN IF files # <<>> THEN SelectSeq(files, InCorpus)
       ELSE IF limit # 0 THEN SubSeq(remaining, 1, Min(limit, Len(remaining)))
       ELSE remaining

\* gemini_extractor.main, lines 373-384: OUTPUT_FILE after the record of one
\* document is saved: the rows read back, then the new row as returned.
saved(store, pdf_path, fields) ==
    Append(read_excel(store), [sf |-> pdf_path, f |-> fields])

\* The extractor just started: its list is built, the browser is launched and
\* the login is awaited (launched = FALSE: lines 315-317 or 353-355 return).
ExtractorStarted(files, limit, launched, store) ==
    LET todo == pdf_files_of(files, limit, store)
    IN [NoProc EXCEPT !.script = "extractor",
                      !.files = files, !.limit = limit,
                      !.launched = launched,
                      !.running = launched /\ todo # <<>>,
                      !.pdf_files = todo,
                      !.targets = todo,
                      !.start = store]

\* gemini_extractor.main, lines 363-387: one iteration of the loop over
\* pdf_files, for one value returned by process_study_single_pass.
ExtractStep ==
    /\ proc.script = "extractor" /\ proc.running
    /\ \E result \in ExtractResults :
          LET pdf_path == Head(proc.pdf_files)
              rest == Tail(proc.pdf_files)
          IN /\ output_file' =
                   IF result = <<>> THEN output_file
                   ELSE saved(output_file, pdf_path, result[1])
             /\ proc' = [proc EXCEPT
                            !.pdf_files = rest,
                            !.running = rest # <<>>,
                            !.trace = Append(@, IF result = <<>> THEN "FAILED"
                                                ELSE "RESULT")]
    /\ UNCHANGED <<corpus, validation_log, healing_report, orch, cmds, rvars>>

\* Mutant of df_of: the limit is applied to the targeted rows as well.
df_of_limited(files, limit, store) ==
    LET df == read_excel(store)
        rows == IF files # <<>> THEN SelectRows(df, Range(files)) ELSE df
    IN IF limit # 0 THEN SubSeq(rows, 1, Min(limit, Len(rows))) ELSE rows

\* validation_agent.main, lines 238-265: the rows to validate and the copy of
\* the whole file.  files = <<>>: no --files; limit = 0: no --limit.
df_of(files, limit, store) ==
    LET df == read_excel(store)
    IN IF files # <<>> THEN SelectRows(df, Range(files))
       ELSE IF limit # 0 THEN SubSeq(df, 1, Min(limit, Len(df)))
       ELSE df

\* The validator just started (launched = FALSE: lines 346-353 return).
ValidatorStarted(files, limit, launched, store) ==
    LET rows == df_of(files, limit, store)
    IN [NoProc EXCEPT !.script = "validator",
                      !.files = files, !.limit = limit,
                      !.launched = launched,
                      !.running = launched /\ rows # <<>>,
                      !.df = rows,
                      !.targets = rows,
                      !.full_df = read_excel(store),
                      !.start = store]

RECURSIVE Flatten(_)
\* validation_agent.main, lines 448-471: one row per discrepancy, or one
\* summary row for a result without discrepancies.
Flatten(results) ==
    IF results = <<>> THEN <<>>
    ELSE LET res == Head(results)
             D == res.discrepancies
         IN (IF D = <<>>
             THEN <<[sf |-> res.sf, status |-> res.status, field |-> Null]>>
             ELSE [i \in DOMAIN D |->
                      [sf |-> res.sf, status |-> res.status, field |-> D[i].field]])
            \o Flatten(Tail(results))

\* validation_agent.main, lines 356-475: one iteration of the loop over the
\* rows of df, for one reply of the agent.
ValidateStep ==
    /\ proc.script = "validator" /\ proc.running
    /\ LET row == Head(proc.df)
           rest == Tail(proc.df)
           source_file == row.sf
       IN IF source_file \notin corpus
          THEN \* lines 388-394: no PDF, `continue`
               /\ proc' = [proc EXCEPT !.df = rest, !.running = rest # <<>>,
                                       !.trace = Append(@, "SKIP")]
               /\ UNCHANGED <<output_file, validation_log>>
          ELSE IF clean_data(row) = {}
          THEN \* lines 400-407: NO DATA, `continue`
               /\ proc' = [proc EXCEPT
                              !.df = rest, !.running = rest # <<>>,
                              !.trace = Append(@, "NO DATA"),
                              !.validation_results =
                                  Append(@, [sf |-> source_file, status |-> "NO DATA",
                                             discrepancies |-> <<>>])]
               /\ UNCHANGED <<output_file, validation_log>>
          ELSE \* lines 409-475: a turn, then both files are written
               \E reply \in ValidationReplies :
                  LET result == interact_with_gemini(reply)
                      validation_results ==
                          IF result = <<>> THEN proc.validation_results
                          ELSE Append(proc.validation_results,
                                      [sf |-> source_file,
                                       status |-> result[1].status,
                                       discrepancies |-> result[1].discrepancies])
                  IN /\ proc' = [proc EXCEPT
                                    !.df = rest, !.running = rest # <<>>,
                                    !.trace = Append(@, IF result = <<>> THEN "FAILED"
                                                        ELSE "RESULT"),
                                    !.validation_results = validation_results]
                     /\ output_file' = proc.full_df
                     /\ validation_log' =
                           IF validation_results # <<>>
                           THEN Flatten(validation_results)
                           ELSE validation_log
    /\ UNCHANGED <<corpus, healing_report, orch, cmds, rvars>>

\* ------------------------------------------------------------------------
\* do_it_all.py: the orchestrator
\* ------------------------------------------------------------------------

NoOrch ==
    [pc |-> "idle", failed_files |-> <<>>,
     before_healing_snapshot |-> [rows |-> <<>>, dtypes |-> Dtypes(<<>>)],
     store0 |-> <<>>]

\* get_failed_files: the distinct Source File values of the rows whose Status
\* is FAIL, in order of first appearance.
get_failed_files(log) ==
    LET IsFail(r) == r.status = "FAIL"
        fails == SelectSeq(log, IsFail)
    IN Unique([i \in DOMAIN fails |-> fails[i].sf])

\* cleanup_failed_entries: the rows kept in OUTPUT_FILE.  The file is written
\* only when a row was removed; what is written is the DataFrame read.
purged(store, failed_files) ==
    LET df == read_excel(store)
        kept == RejectRows(df, Range(failed_files))
    IN IF Len(kept) < Len(df) THEN kept ELSE store

\* Mutant of failed_rows: the rows are taken after the failed entries were
\* removed.
failed_rows_after_purge(store, failed_files) ==
    LET df == read_excel(purged(store, failed_files))
    IN [rows |-> SelectRows(df, Range(failed_files)), dtypes |-> Dtypes(df)]

\* cleanup_failed_entries: the rows returned, with the dtypes of the DataFrame
\* they were taken from.
failed_rows(store, failed_files) ==
    LET df == read_excel(store)
    IN [rows |-> SelectRows(df, Range(failed_files)), dtypes |-> Dtypes(df)]

\* The first row of a DataFrame with the given Source File (.loc[[k]].iloc[0]).
FirstRow(rows, filename) ==
    rows[CHOOSE i \in DOMAIN rows :
            /\ rows[i].sf = filename
            /\ \A j \in 1..(i - 1) : rows[j].sf # filename]

RECURSIVE ColumnEntries(_, _, _, _, _, _)
\* generate_healing_report, lines 83-94: the entries of one document, column by
\* column.
ColumnEntries(cols, filename, old_row, old_dtypes, new_row, new_dtypes) ==
    IF cols = <<>> THEN <<>>
    ELSE LET col == Head(cols)
             old_val == StrOrNull(old_row.f[col], old_dtypes, col)
             new_val == StrOrNull(new_row.f[col], new_dtypes, col)
         IN (IF old_val # new_val
             THEN <<[Article |-> filename, Field |-> col, Original |-> old_val,
                     Healed |-> new_val, Status |-> "FIXED"]>>
             ELSE <<>>)
            \o ColumnEntries(Tail(cols), filename, old_row, old_dtypes,
                             new_row, new_dtypes)

RECURSIVE comparison_data(_, _, _, _)
\* generate_healing_report, lines 75-94: the entries of all failed files.
comparison_data(files, before_df, after_df, after_dtypes) ==
    IF files = <<>> THEN <<>>
    ELSE LET filename == Head(files)
         IN (IF /\ filename \in SourceFiles(before_df.rows)
                /\ filename \in SourceFiles(after_df)
             THEN ColumnEntries(ALL_COLUMNS, filename,
                                FirstRow(before_df.rows, filename), before_df.dtypes,
                                FirstRow(after_df, filename), after_dtypes)
             ELSE <<>>)
            \o comparison_data(Tail(files), before_df, after_df, after_dtypes)

\* generate_healing_report: the content of HEALING_REPORT after the call.
generate_healing_report(before_df, store, failed_files, old_report) ==
    IF before_df.rows = <<>> THEN old_report
    ELSE LET read == read_excel(store)
             after_df == SelectRows(read, Range(failed_files))
             entries == comparison_data(failed_files, before_df, after_df, Dtypes(read))
         IN IF entries # <<>> THEN entries ELSE old_report

\* No command is running: the next one can be issued.
Idle == orch.pc \in {"idle", "DONE"} /\ ~proc.running /\ cmds < MaxCmds

\* python gemini_extractor.py [--limit N]
CmdExtractScan ==
    /\ Idle
    /\ \E limit \in Limits, launched \in BOOLEAN :
          \E rc \in ExitCodes(launched) :
                proc' = [ExtractorStarted(<<>>, limit, launched, output_file)
                            EXCEPT !.returncode = rc]
    /\ orch' = NoOrch
    /\ cmds' = cmds + 1
    /\ UNCHANGED <<corpus, output_file, validation_log, healing_report, rvars>>

\* python gemini_extractor.py --files F...
CmdExtractFiles ==
    /\ Idle
    /\ \E files \in FileLists, launched \in BOOLEAN :
          \E rc \in ExitCodes(launched) :
                proc' = [ExtractorStarted(files, 0, launched, output_file)
                            EXCEPT !.returncode = rc]
    /\ orch' = NoOrch
    /\ cmds' = cmds + 1
    /\ UNCHANGED <<corpus, output_file, validation_log, healing_report, rvars>>

\* python validation_agent.py [--limit N] [--files F...]
CmdValidate ==
    /\ Idle
    /\ \E files \in FileLists \cup {<<>>}, launched \in BOOLEAN :
          \E limit \in Limits :
             \E rc \in ExitCodes(launched) :
                proc' = [ValidatorStarted(files, limit, launched, output_file)
                            EXCEPT !.returncode = rc]
    /\ orch' = NoOrch
    /\ cmds' = cmds + 1
    /\ UNCHANGED <<corpus, output_file, validation_log, healing_report, rvars>>

\* do_it_all.main, lines 112-117: DISCREPANCY_FILE after os.remove inside
\* `try: ... except: pass`; when os.remove raises, the file stays as it was.
log_after_remove(log, removed) == IF removed THEN <<>> ELSE log

\* do_it_all.main, lines 109-121: the old log is removed and the first
\* validation is started.
OrchStart ==
    /\ Idle
    /\ \E limit \in Limits, launched \in BOOLEAN :
          \E rc \in ExitCodes(launched) :
                proc' = [ValidatorStarted(<<>>, limit, launched, output_file)
                            EXCEPT !.returncode = rc]
    /\ \E removed \in BOOLEAN :
          validation_log' = log_after_remove(validation_log, removed)
    /\ orch' = [NoOrch EXCEPT !.pc = "V1", !.store0 = output_file]
    /\ cmds' = cmds + 1
    /\ UNCHANGED <<corpus, output_file, healing_report, rvars>>

\* do_it_all.main, lines 125-145: after the first validation, either the run
\* ends or the failed entries are removed and the extractor is started on them.
OrchHeal ==
    /\ orch.pc = "V1" /\ ~proc.running
    /\ LET failed_files == get_failed_files(validation_log)
       IN IF failed_files = <<>>
          THEN /\ orch' = [orch EXCEPT !.pc = "DONE"]
               /\ UNCHANGED <<output_file, proc>>
          ELSE /\ output_file' = purged(output_file, failed_files)
               /\ orch' = [orch EXCEPT
                              !.pc = "REEXTRACT",
                              !.failed_files = failed_files,
                              !.before_healing_snapshot =
                                  failed_rows(output_file, failed_files)]
               /\ \E launched \in BOOLEAN :
                     \E rc \in ExitCodes(launched) :
                        proc' = [ExtractorStarted(failed_files, 0, launched,
                                                  output_file')
                                    EXCEPT !.returncode = rc]
    /\ UNCHANGED <<corpus, validation_log, healing_report, cmds, rvars>>

\* Mutant of OrchValidate2: the run goes on only when the extractor did not
\* exit with an error.
OrchValidate2IfExtracted ==
    /\ orch.pc = "REEXTRACT" /\ ~proc.running
    /\ run_script(proc)
    /\ \E launched \in BOOLEAN :
          \E rc \in ExitCodes(launched) :
                proc' = [ValidatorStarted(orch.failed_files, 0, launched, output_file)
                            EXCEPT !.returncode = rc]
    /\ orch' = [orch EXCEPT !.pc = "V2"]
    /\ UNCHANGED <<corpus, output_file, validation_log, healing_report, cmds, rvars>>

\* do_it_all.main, lines 147-149: after the re-extraction, the failed files are
\* validated again.
OrchValidate2 ==
    /\ orch.pc = "REEXTRACT" /\ ~proc.running
    /\ \E launched \in BOOLEAN :
          \E rc \in ExitCodes(launched) :
                proc' = [ValidatorStarted(orch.failed_files, 0, launched, output_file)
                            EXCEPT !.returncode = rc]
    /\ orch' = [orch EXCEPT !.pc = "V2"]
    /\ UNCHANGED <<corpus, output_file, validation_log, healing_report, cmds, rvars>>

\* Mutant of OrchReport: while the log shows failures, the report is followed
\* by another healing round.
OrchReportThenAgain ==
    /\ orch.pc = "V2" /\ ~proc.running
    /\ healing_report' =
          generate_healing_report(orch.before_healing_snapshot, output_file,
                                  orch.failed_files, healing_report)
    /\ orch' = [orch EXCEPT !.pc = IF get_failed_files(validation_log) # <<>>
                                   THEN "V1" ELSE "DONE"]
    /\ UNCHANGED <<corpus, output_file, validation_log, proc, cmds, rvars>>

\* do_it_all.main, lines 151-170: the comparison report, and the end.
OrchReport ==
    /\ orch.pc = "V2" /\ ~proc.running
    /\ healing_report' =
          generate_healing_report(orch.before_healing_snapshot, output_file,
                                  orch.failed_files, healing_report)
    /\ orch' = [orch EXCEPT !.pc = "DONE"]
    /\ UNCHANGED <<corpus, output_file, validation_log, proc, cmds, rvars>>

\* ------------------------------------------------------------------------
\* The reply text and its parsing
\* ------------------------------------------------------------------------

\* The characters of a reply text: the two braces, "k" for the members of a
\* well-formed JSON object, "x" for any other text.
Chars == {"{", "}", "k", "x"}

\* The reply texts of SpecTurn.
Replies == SeqsUpTo(Chars, MaxReplyLen)

\* str.find: the 0-based index of the first occurrence, -1 when there is none.
find(s, ch) ==
    IF \E i \in DOMAIN s : s[i] = ch
    THEN (CHOOSE i \in DOMAIN s : s[i] = ch /\ \A j \in 1..(i - 1) : s[j] # ch) - 1
    ELSE -1

\* str.rfind: the 0-based index of the last occurrence, -1 when there is none.
rfind(s, ch) ==
    IF \E i \in DOMAIN s : s[i] = ch
    THEN (CHOOSE i \in DOMAIN s : s[i] = ch /\ \A j \in (i + 1)..Len(s) : s[j] # ch) - 1
    ELSE -1

\* last_response[start:end] for start >= 0 and end >= 0.
Slice(s, start, end) == SubSeq(s, start + 1, end)

\* json.loads on a text of Chars: <<>> when it raises, <<the text>> when the
\* text is an object, without members ("{}") or with members ("{k}").
json_loads(json_str) ==
    IF json_str \in {<<"{", "}">>, <<"{", "k", "}">>} THEN <<json_str>> ELSE <<>>

\* What a turn returns: None, or a dict.  truthy is the dict's value in
\* `if result:` / `if data`; message is the dict's 'message', status its
\* 'status' (Absent without the key), source its 'Source File' (<<>> without
\* the key, <<d>> for the name of document d).
ReturnNone ==
    [kind |-> "None", message |-> "", status |-> Absent, truthy |-> FALSE,
     source |-> <<>>]
ReturnError(message) ==
    [kind |-> "dict", message |-> message, status |-> "ERROR", truthy |-> TRUE,
     source |-> <<>>]
ReturnData(status, truthy) ==
    [kind |-> "dict", message |-> "", status |-> status, truthy |-> truthy,
     source |-> <<>>]

\* A 'Source File' value in a reply that names none of the run's documents.
ForeignSource == <<0>>

\* json.loads keeps the keys of the reply: the parsed object has the reply's
\* own 'Source File' when the agent wrote one.
reply_keys(result, reply_source) ==
    IF result.kind = "dict" /\ result.message = ""
    THEN [result EXCEPT !.source = reply_source,
                        !.truthy = @ \/ reply_source # <<>>]
    ELSE result

\* Mutant of with_source: the name is set only when the dict has no
\* 'Source File' yet (setdefault).
with_source_if_missing(result, source_file) ==
    IF result.source = <<>> THEN [result EXCEPT !.source = <<source_file>>, !.truthy = TRUE]
    ELSE result

\* result['Source File'] = source_file (validation_agent.py 419) and
\* data['Source File'] = os.path.basename(pdf_path) (gemini_extractor.py 206).
with_source(result, source_file) ==
    [result EXCEPT !.source = <<source_file>>, !.truthy = TRUE]

\* validation_agent.interact_with_gemini, lines 199-227: from the reply text
\* to the value returned.  reply is what the members "k" say.
parse_validation(last_response, reply) ==
    LET start == find(last_response, "{")
        end == rfind(last_response, "}") + 1
    IN IF start # -1 /\ end # -1
       THEN LET parsed == json_loads(Slice(last_response, start, end))
            IN IF parsed = <<>> THEN ReturnError("JSON Parse Error")
               ELSE IF parsed[1] = <<"{", "}">> THEN ReturnData(Absent, FALSE)
               ELSE ReturnData(Reconcile(reply.status, reply.discrepancies), TRUE)
       ELSE ReturnError("No JSON found")

\* gemini_extractor.extract_data_from_page, lines 199-212: from the reply text
\* to the value returned; the dict always gets the 'Source File' key.
parse_extraction(last_response) ==
    LET start == find(last_response, "{")
        end == rfind(last_response, "}") + 1
    IN IF start # -1 /\ end # -1
       THEN LET parsed == json_loads(Slice(last_response, start, end))
            IN IF parsed = <<>> THEN ReturnNone
               ELSE ReturnData(Absent, TRUE)
       ELSE ReturnNone

\* ------------------------------------------------------------------------
\* A stage loop, turn step by turn step
\* ------------------------------------------------------------------------

\* The ceiling of the completion poll: `for _ in range(120)`.
PollCeiling == 120

\* No stage loop is being followed.
\* Of its fields, done, timeouts, poll_end, stop_at_break and read_from
\* keep what has happened in the current turn: the steps done ("upload": the
\* path was given to the file chooser, "fill": the prompt was written,
\* "submit": Enter was pressed), the bounded wait that ran out in the step
\* just taken, how the poll ended, and where the response text was read from.
\* reply_source is the 'Source File' key of the reply read, stored the dicts
\* the loop has kept (all_results / validation_results) with their document.
NoTurn ==
    [script |-> "none", pc |-> "end", n |-> 0, doc |-> 0, pages |-> {},
     polls |-> 0, containers |-> FALSE, last_response |-> <<>>,
     result |-> ReturnNone, failed |-> "", results |-> <<>>, opened |-> <<>>,
     reply_source |-> <<>>, stored |-> <<>>,
     done |-> {}, timeouts |-> {}, poll_end |-> "", stop_at_break |-> FALSE,
     read_from |-> ""]

\* The stage is at the top of its loop over n documents, none processed yet.
LoopStarted(script, n) ==
    [NoTurn EXCEPT !.script = script, !.pc = "loop", !.n = n]

\* Mutant of Failed: the exception of the step leaves the turn and ends the
\* process.
FailedRaises(step) ==
    [turn EXCEPT !.failed = step, !.polls = 0, !.pc = "crashed"]

\* Mutant of Failed: the failure of the step is passed over and the turn goes
\* on to the prompt.
FailedGoesOn(step) ==
    [turn EXCEPT !.failed = step, !.polls = 0, !.pc = "prompt"]

\* The turn ends here with None: `return None`, or an exception caught by the
\* `except Exception` of the step's block.
Failed(step) ==
    [turn EXCEPT !.result = ReturnNone, !.failed = step, !.polls = 0,
                 !.timeouts = {}, !.pc = "close"]

\* The top of the loop: the next document's page is opened (new_page), or the
\* loop is over; new_page raising ends the process, it is not inside any try.
TOpenPage ==
    /\ turn.pc = "loop"
    /\ \/ /\ turn.doc < turn.n
          /\ \E ok \in BOOLEAN :
                turn' = IF ok
                        THEN [turn EXCEPT !.doc = @ + 1,
                                          !.pages = @ \cup {turn.doc + 1},
                                          !.opened = Append(@, turn.doc + 1),
                                          !.polls = 0, !.containers = FALSE,
                                          !.last_response = <<>>,
                                          !.result = ReturnNone, !.failed = "",
                                          !.reply_source = <<>>,
                                          !.done = {}, !.timeouts = {},
                                          !.poll_end = "", !.stop_at_break = FALSE,
                                          !.read_from = "",
                                          !.pc = "goto"]
                        ELSE [turn EXCEPT !.pc = "crashed"]
       \/ /\ turn.doc = turn.n
          /\ turn' = [turn EXCEPT !.pc = "end"]
    /\ UNCHANGED <<pvars, agent_reply, data>>

\* Mutant of navigated: a page that did not load in time ends the turn.
navigated_or_failed(loaded) ==
    IF loaded THEN [turn EXCEPT !.pc = "plus"]
    ELSE [Failed("goto") EXCEPT !.timeouts = {"goto"}]

\* Lines 53-56: page.goto inside `try: ... except: print(...)`: loaded within
\* the 90 s or not, the turn goes on to the upload.
navigated(loaded) ==
    [turn EXCEPT !.timeouts = IF loaded THEN {} ELSE {"goto"},
                 !.pc = "plus"]

\* page.goto with its 90 s timeout: loaded or not, the turn goes on.
TNavigate ==
    /\ turn.pc = "goto"
    /\ \E loaded \in BOOLEAN : turn' = navigated(loaded)
    /\ UNCHANGED <<pvars, agent_reply, data>>

\* The upload affordance: one of the selectors is clicked, or none is found.
TPlus ==
    /\ turn.pc = "plus"
    /\ \E plus_found \in BOOLEAN :
          turn' = IF plus_found THEN [turn EXCEPT !.timeouts = {}, !.pc = "menu"]
                  ELSE Failed("plus")
    /\ UNCHANGED <<pvars, agent_reply, data>>

\* The upload menu item: clicked, or not found.
TMenu ==
    /\ turn.pc = "menu"
    /\ \E upload_found \in BOOLEAN :
          turn' = IF upload_found THEN [turn EXCEPT !.pc = "chooser"]
                  ELSE Failed("menu")
    /\ UNCHANGED <<pvars, agent_reply, data>>

\* The file chooser: it opens within 60 s and takes the path, or the wait or
\* set_files raises.
TFileChooser ==
    /\ turn.pc = "chooser"
    /\ \E chosen \in BOOLEAN :
          turn' = IF chosen
                  THEN [turn EXCEPT !.done = @ \cup {"upload"}, !.pc = "ingest"]
                  ELSE Failed("chooser")
    /\ UNCHANGED <<pvars, agent_reply, data>>

\* The wait for the file chip, 60 s: seen or not, the turn goes on.
TIngest ==
    /\ turn.pc = "ingest"
    /\ \E acknowledged \in BOOLEAN :
          turn' = [turn EXCEPT
                      !.timeouts = IF acknowledged THEN {} ELSE {"ingest"},
                      !.pc = "prompt"]
    /\ UNCHANGED <<pvars, agent_reply, data>>

\* The prompt is filled in and submitted, or fill / press raises.
TPrompt ==
    /\ turn.pc = "prompt"
    /\ \E filled \in BOOLEAN, pressed \in BOOLEAN :
          turn' = IF ~filled THEN Failed("prompt")
                  ELSE IF ~pressed
                  THEN [Failed("prompt") EXCEPT !.done = @ \cup {"fill"}]
                  ELSE [turn EXCEPT !.done = @ \cup {"fill", "submit"},
                                    !.timeouts = {}, !.pc = "poll"]
    /\ UNCHANGED <<pvars, agent_reply, data>>

\* Mutant of poll_break: the poll ends as soon as no stop button is visible.
poll_break_without_container(stop_visible, has_container) == ~stop_visible

\* The iteration of the poll breaks: no visible stop button and a response
\* container.
poll_break(stop_visible, has_container) == ~stop_visible /\ has_container

\* A completion poll whose counter starts over instead of advancing.
next_poll_restarts(polls) == IF polls >= 1 THEN 0 ELSE polls + 1

\* The loop counter after an iteration that did not break.
next_poll(polls) == polls + 1

\* One iteration of the completion poll; a locator call raising ends the turn.
TPoll ==
    /\ turn.pc = "poll"
    /\ turn.polls < PollCeiling
    /\ \/ \E stop_visible \in BOOLEAN, has_container \in BOOLEAN :
             /\ turn.containers => has_container
             /\ turn' = IF poll_break(stop_visible, has_container)
                        THEN [turn EXCEPT !.containers = has_container,
                                          !.poll_end = "break",
                                          !.stop_at_break = stop_visible,
                                          !.pc = "read"]
                        ELSE IF next_poll(turn.polls) >= PollCeiling
                        THEN [turn EXCEPT !.containers = has_container,
                                          !.polls = next_poll(@),
                                          !.poll_end = "ceiling",
                                          !.timeouts = {"poll"},
                                          !.pc = "read"]
                        ELSE [turn EXCEPT !.containers = has_container,
                                          !.polls = next_poll(@)]
       \/ turn' = Failed("poll")
    /\ UNCHANGED <<pvars, agent_reply, data>>

\* last_response[start:end] of the parse, <<>> when a brace is missing.
BraceText(s) ==
    IF find(s, "{") # -1 /\ rfind(s, "}") # -1
    THEN Slice(s, find(s, "{"), rfind(s, "}") + 1) ELSE <<>>

\* The response is read: the text of the last container, or the page content
\* when there is none; inner_text / content raising ends the turn.  A reply
\* that is an object with members may have a 'Source File' among them.
TRead ==
    /\ turn.pc = "read"
    /\ \/ \E text \in Replies, has_container \in BOOLEAN :
          \E reply_source \in IF json_loads(BraceText(text)) = <<<<"{", "k", "}">>>>
                               THEN {<<>>, ForeignSource} ELSE {<<>>} :
             /\ turn.containers => has_container
             /\ turn' = [turn EXCEPT !.containers = has_container, !.polls = 0,
                                     !.reply_source = reply_source,
                                     !.read_from = IF has_container THEN "container"
                                                   ELSE "page",
                                     !.timeouts = {},
                                     !.last_response = text, !.pc = "parse"]
       \/ turn' = Failed("read")
    /\ UNCHANGED <<pvars, agent_reply, data>>

\* gemini_extractor.py 205-207: the dict parsed from the reply gets the name
\* of the document; None stays None.
extracted(result, reply_source, doc) ==
    IF result.kind = "dict" THEN with_source(reply_keys(result, reply_source), doc)
    ELSE result

\* The text is parsed and the value is returned.
TParse ==
    /\ turn.pc = "parse"
    /\ turn' = [turn EXCEPT
                   !.result = IF turn.script = "validator"
                              THEN reply_keys(parse_validation(turn.last_response,
                                                               agent_reply),
                                              turn.reply_source)
                              ELSE extracted(parse_extraction(turn.last_response),
                                             turn.reply_source, turn.doc),
                   !.pc = "close"]
    /\ UNCHANGED <<pvars, agent_reply, data>>

\* A `finally` that leaves the page of the document open.
close_leaves_open(pages, doc) == pages

\* page.close() in the `finally`: the open pages without the document's.
close(pages, doc) == pages \ {doc}

\* What the loop keeps of the value returned: the validator sets the row's
\* Source File on a truthy result and appends it (validation_agent.py
\* 417-421); the extractor appends a truthy dict as returned
\* (gemini_extractor.py 222, 368-369).
kept(script, result, doc) ==
    IF ~result.truthy THEN <<>>
    ELSE IF script = "validator"
    THEN <<[doc |-> doc, source |-> with_source(result, doc).source]>>
    ELSE <<[doc |-> doc, source |-> result.source]>>

\* The `finally` of the sub-session: the page is closed, the stage loop has
\* the value returned and goes back to the top of the loop.
TClosePage ==
    /\ turn.pc = "close"
    /\ turn' = [turn EXCEPT !.pages = close(@, turn.doc),
                            !.results = Append(@, turn.result),
                            !.stored = @ \o kept(turn.script, turn.result, turn.doc),
                            !.done = {}, !.timeouts = {},
                            !.poll_end = "", !.stop_at_break = FALSE,
                            !.read_from = "",
                            !.pc = "loop"]
    /\ UNCHANGED <<pvars, agent_reply, data>>

\* ------------------------------------------------------------------------
\* An extraction run that can be interrupted
\* ------------------------------------------------------------------------

\* OUTPUT_FILE while to_excel is rewriting it: the file has been opened for
\* writing and holds no row until the workbook is saved into it.
Truncated == <<>>

\* gemini_extractor.main, lines 363-382: the turn of the next document, the
\* DataFrame to save is built, and to_excel has opened OUTPUT_FILE.
ExtractTurn ==
    /\ proc.script = "extractor" /\ proc.running /\ ~proc.writing
    /\ \E result \in ExtractResults :
          LET pdf_path == Head(proc.pdf_files)
              rest == Tail(proc.pdf_files)
          IN IF result = <<>>
             THEN /\ proc' = [proc EXCEPT !.pdf_files = rest,
                                          !.running = rest # <<>>,
                                          !.trace = Append(@, "FAILED")]
                  /\ UNCHANGED output_file
             ELSE /\ proc' = [proc EXCEPT
                                 !.writing = TRUE,
                                 !.df_to_write = saved(output_file, pdf_path, result[1])]
                  /\ output_file' = Truncated
    /\ UNCHANGED <<corpus, validation_log, healing_report, orch, cmds, rvars>>

\* gemini_extractor.main, line 384: to_excel has written the workbook; the
\* loop goes to the next document.
ExtractSaved ==
    /\ proc.script = "extractor" /\ proc.running /\ proc.writing
    /\ output_file' = proc.df_to_write
    /\ proc' = [proc EXCEPT !.writing = FALSE, !.df_to_write = <<>>,
                            !.pdf_files = Tail(@),
                            !.running = Tail(proc.pdf_files) # <<>>,
                            !.trace = Append(@, "RESULT")]
    /\ UNCHANGED <<corpus, validation_log, healing_report, orch, cmds, rvars>>

\* The process is stopped from outside (Ctrl-C, kill, power loss), wherever
\* it is; the file stays as it is at that moment.
Interrupt ==
    /\ proc.script = "extractor" /\ proc.running
    /\ proc' = [proc EXCEPT !.running = FALSE, !.returncode = 1]
    /\ UNCHANGED <<corpus, output_file, validation_log, healing_report, orch,
                   cmds, rvars>>

\* ------------------------------------------------------------------------
\* Specifications
\* ------------------------------------------------------------------------

RECURSIVE ScanResults(_, _)
\* The contents OUTPUT_FILE can have after a corpus scan over `files` that
\* started on `store`: each document's turn fails or returns a reply.
ScanResults(files, store) ==
    IF files = <<>> THEN {store}
    ELSE UNION { ScanResults(Tail(files), s) :
                   s \in {store} \cup {saved(store, Head(files), v) : v \in ReplyVectors} }

\* ARTICLES_DIR: as it was when the documents were extracted, or with one
\* document taken out since.
Corpora == {AllDocs} \cup {AllDocs \ {f} : f \in AllDocs}

\* The working directory after a first extraction run over the whole corpus:
\* OUTPUT_FILE as that run left it, no log and no report yet.
Init ==
    /\ corpus \in Corpora
    /\ output_file \in ScanResults(ListDir, <<>>)
    /\ validation_log = <<>>
    /\ healing_report = <<>>
    /\ orch = NoOrch
    /\ proc = NoProc
    /\ cmds = 0
    /\ agent_reply = [status |-> Absent, discrepancies |-> <<>>]
    /\ data = <<>>
    /\ turn = NoTurn

Next ==
    \/ CmdExtractScan
    \/ CmdExtractFiles
    \/ CmdValidate
    \/ ExtractStep
    \/ ValidateStep
    \/ OrchStart
    \/ OrchHeal
    \/ OrchValidate2
    \/ OrchReport

Spec == Init /\ [][Next]_vars

\* DISCREPANCY_FILE as an earlier run may have left it: none, or the log of a
\* pass that gave FAIL to one document.
StaleLogs ==
    {<<>>, <<[sf |-> DocT, status |-> "FAIL", field |-> "X"]>>}

\* HEALING_REPORT as an earlier run may have left it: none, or one entry.
StaleReports ==
    {<<>>, <<[Article |-> DocST, Field |-> "Y", Original |-> "NULL",
              Healed |-> "a", Status |-> "FIXED"]>>}

\* The working directory before `python do_it_all.py`: the store of a first
\* corpus scan, and what earlier orchestrator runs may have left.
HInit ==
    /\ corpus \in Corpora
    /\ output_file \in ScanResults(ListDir, <<>>)
    /\ validation_log \in StaleLogs
    /\ healing_report \in StaleReports
    /\ orch = NoOrch
    /\ proc = NoProc
    /\ cmds = 0
    /\ agent_reply = [status |-> Absent, discrepancies |-> <<>>]
    /\ data = <<>>
    /\ turn = NoTurn

\* One run of the orchestrator, with the stages it starts.
HNext ==
    \/ OrchStart
    \/ ValidateStep
    \/ OrchHeal
    \/ ExtractStep
    \/ OrchValidate2
    \/ OrchReport

SpecHeal == HInit /\ [][HNext]_vars

\* The same, with the progress the programs make by themselves: a stage goes
\* through its loop, and the orchestrator, which waits for each stage in
\* subprocess.run, goes on when the stage is over.  Issuing a command is left
\* to the user.
SpecLive ==
    /\ Spec
    /\ WF_vars(ExtractStep)
    /\ WF_vars(ValidateStep)
    /\ WF_vars(OrchHeal)
    /\ WF_vars(OrchValidate2)
    /\ WF_vars(OrchReport)

\* The items a discrepancy list is made of in SpecReconcile: reconciliation
\* reads nothing but the severity.
Discrepancies == [field : {"X"}, severity : Severities]

RInit ==
    /\ agent_reply \in [status : AgentStatuses,
                        discrepancies : SeqsUpTo(Discrepancies, MaxDiscrepancies)]
    /\ data = <<>>
    /\ turn = NoTurn
    /\ corpus = AllDocs
    /\ output_file = <<>>
    /\ validation_log = <<>>
    /\ healing_report = <<>>
    /\ orch = NoOrch
    /\ proc = NoProc
    /\ cmds = 0

\* One call of the reconciliation code on the parsed reply.
RReconcile ==
    /\ data = <<>>
    /\ data' = <<[status |-> Reconcile(agent_reply.status, agent_reply.discrepancies),
                  discrepancies |-> agent_reply.discrepancies]>>
    /\ UNCHANGED <<agent_reply, turn, pvars>>

RNext == RReconcile

SpecReconcile == RInit /\ [][RNext]_vars

\* The members of a parsed validation reply in SpecTurn.
TurnReplies ==
    { [status |-> "PASS", discrepancies |-> <<>>],
      [status |-> "FAIL", discrepancies |-> <<[field |-> "X", severity |-> "CRITICAL"]>>] }

\* A stage has launched and starts its loop over one to MaxQueue documents.
TInit ==
    /\ \E script \in {"extractor", "validator"}, n \in 1..MaxQueue :
          turn = LoopStarted(script, n)
    /\ agent_reply \in TurnReplies
    /\ data = <<>>
    /\ corpus = AllDocs
    /\ output_file = <<>>
    /\ validation_log = <<>>
    /\ healing_report = <<>>
    /\ orch = NoOrch
    /\ proc = NoProc
    /\ cmds = 0

TNext ==
    \/ TOpenPage
    \/ TNavigate
    \/ TPlus
    \/ TMenu
    \/ TFileChooser
    \/ TIngest
    \/ TPrompt
    \/ TPoll
    \/ TRead
    \/ TParse
    \/ TClosePage

SpecTurn == TInit /\ [][TNext]_vars

\* The interpreter runs the next statement of the loop: every wait of a turn
\* is a sleep of fixed length or a Playwright call that returns or raises
\* within its timeout, so the step that is enabled is eventually taken.
\* A turn does not depend on the turns before it: the loop that is followed
\* to its end has one document.
TLInit == TInit /\ turn.n = 1

SpecTurnLive == TLInit /\ [][TNext]_vars /\ WF_vars(TNext)

\* A corpus scan or a targeted run of the extractor has launched, on a store
\* left by an earlier scan.
IInit ==
    /\ corpus \in Corpora
    /\ output_file \in ScanResults(ListDir, <<>>)
    /\ \E files \in FileLists \cup {<<>>} :
          proc = ExtractorStarted(files, 0, TRUE, output_file)
    /\ validation_log = <<>>
    /\ healing_report = <<>>
    /\ orch = NoOrch
    /\ cmds = 0
    /\ agent_reply = [status |-> Absent, discrepancies |-> <<>>]
    /\ data = <<>>
    /\ turn = NoTurn

INext ==
    \/ ExtractTurn
    \/ ExtractSaved
    \/ Interrupt

SpecInterrupt == IInit /\ [][INext]_vars

\* ------------------------------------------------------------------------
\* Claims
\* ------------------------------------------------------------------------

\* Some item of D has the given severity, or one of the given severities.
HasSeverity(D, sevs) == \E i \in DOMAIN D : D[i].severity \in sevs

\* C1 (as claimed): for every agent reply, the reconciled status is FAIL if and
\* only if the discrepancy list holds at least one item of severity CRITICAL,
\* whatever status the agent reported.
C1_FailIffCritical ==
    data # <<>> =>
        (data[1].status = "FAIL" <=> HasSeverity(agent_reply.discrepancies, {"CRITICAL"}))

\* C1 (amended): when the agent reported PASS or FAIL and listed at least one
\* discrepancy, the reconciled status is FAIL if and only if some item's
\* severity is CRITICAL or missing; with an empty list, or any other reported
\* status, the reconciled status is the reported one.
C1_Reconciled ==
    data # <<>> =>
        IF agent_reply.status \in {"PASS", "FAIL"} /\ agent_reply.discrepancies # <<>>
        THEN data[1].status = "FAIL"
                <=> HasSeverity(agent_reply.discrepancies, {"CRITICAL", Absent})
        ELSE data[1].status = agent_reply.status

\* C1 witness: the agent said PASS, listed a MINOR and a CRITICAL item, and the
\* call returned FAIL.
C1_Witness ==
    /\ data # <<>>
    /\ agent_reply.status = "PASS"
    /\ HasSeverity(agent_reply.discrepancies, {"MINOR"})
    /\ HasSeverity(agent_reply.discrepancies, {"CRITICAL"})
    /\ data[1].status = "FAIL"

\* The documents for which the running or finished stage has gone through an
\* iteration of its loop.
Attempted == {proc.targets[i] : i \in DOMAIN proc.trace}

\* C2 (as claimed): an extraction run, in scan or in target mode, never
\* extracts a document that had a record in the store when the run started.
C2_NeverExtractsRecorded ==
    proc.script = "extractor" =>
        Attempted \cap SourceFiles(read_excel(proc.start)) = {}

\* C3 (as claimed): the store holds at most one record per source file.
C3_OneRecordPerSource ==
    \A i, j \in DOMAIN output_file :
        output_file[i].sf = output_file[j].sf => i = j

\* C4 (as claimed): once the re-extraction of a healing cycle is over, the
\* documents it attempted are exactly the failed files of the log.
C4_AttemptsExactlyF ==
    (orch.pc = "REEXTRACT" /\ ~proc.running) =>
        Attempted = Range(get_failed_files(validation_log))

\* C4 (amended): the re-extraction of a healing cycle attempts no document
\* outside the failed files of the log, and once it is over it has attempted
\* each of them whose PDF is in the articles directory exactly once, provided
\* the extractor got past the launch of the browser and the login wait;
\* otherwise it attempts none.
C4_AttemptsWithinF ==
    orch.pc = "REEXTRACT" =>
        LET F == Range(get_failed_files(validation_log))
        IN /\ Attempted \subseteq F
           /\ (~proc.running /\ proc.launched) =>
                 (Attempted = F \cap corpus /\ Len(proc.trace) = Cardinality(F \cap corpus))
           /\ ~proc.launched => Attempted = {}

\* C4 witness: two documents failed and the finished re-extraction went
\* through both.
C4_Witness ==
    /\ orch.pc = "REEXTRACT" /\ ~proc.running /\ proc.launched
    /\ Len(get_failed_files(validation_log)) = 2
    /\ Len(proc.trace) = 2

\* C5 (as claimed): at the end of an orchestrator run that healed, every
\* record of a document outside the failed files is still in the store with
\* every field as it was when the run started.
C5_OthersUntouched ==
    (orch.pc = "DONE" /\ orch.failed_files # <<>>) =>
        RejectRows(output_file, Range(orch.failed_files))
            = RejectRows(orch.store0, Range(orch.failed_files))

\* The documents the finished validation found correct.
Passed == {proc.validation_results[i].sf : i \in
              {k \in DOMAIN proc.validation_results :
                   proc.validation_results[k].status = "PASS"}}

\* C6 (as claimed): at the end of an orchestrator run, every failed file that
\* the second validation did not find correct is named in the log or in the
\* healing report.
C6_ResidualFailureVisible ==
    orch.pc = "DONE" =>
        \A d \in Range(orch.failed_files) \ Passed :
            \/ \E i \in DOMAIN validation_log : validation_log[i].sf = d
            \/ \E i \in DOMAIN healing_report : healing_report[i].Article = d

\* C7 (as claimed): when a validation pass that got past the launch of the
\* browser is over, every row of the log stems from an outcome of that pass.
C7_LogOfThisPassOnly ==
    (proc.script = "validator" /\ proc.launched /\ ~proc.running) =>
        \A i \in DOMAIN validation_log :
            \E k \in DOMAIN proc.validation_results :
                /\ proc.validation_results[k].sf = validation_log[i].sf
                /\ proc.validation_results[k].status = validation_log[i].status

\* C8 (as claimed): when a validation pass that got past the launch of the
\* browser is over, it has produced one outcome for each targeted record, and
\* the log holds the rows of every outcome it produced.
C8_OneOutcomeEachAllLogged ==
    (proc.script = "validator" /\ proc.launched /\ ~proc.running) =>
        /\ Len(proc.validation_results) = Len(proc.targets)
        /\ \A k \in DOMAIN proc.validation_results :
              proc.validation_results[k].sf = proc.targets[k].sf
        /\ validation_log = Flatten(proc.validation_results)

\* The record has no field with a value.
NullRecord(row) == \A c \in FieldNames : row.f[c] = Null

\* The position, in validation_results, of what the i-th iteration of the
\* validation loop appended.
OutcomeIndex(i) ==
    Cardinality({k \in 1..i : proc.trace[k] \in {"NO DATA", "RESULT"}})

\* The i-th iteration of the validation loop took no turn of the agent and
\* appended the NO DATA outcome of its record.
GotNoData(i) ==
    /\ proc.trace[i] = "NO DATA"
    /\ OutcomeIndex(i) \in DOMAIN proc.validation_results
    /\ proc.validation_results[OutcomeIndex(i)] =
          [sf |-> proc.targets[i].sf, status |-> "NO DATA", discrepancies |-> <<>>]

\* C9 (as claimed): every targeted record without any field value that the
\* validation loop has gone through got the NO DATA outcome, without a turn.
C9_NullRecordNoData ==
    proc.script = "validator" =>
        \A i \in DOMAIN proc.trace :
            NullRecord(proc.targets[i]) => GotNoData(i)

\* C9 (amended): every targeted record without any field value that the
\* validation loop has gone through, and whose PDF is in the articles
\* directory, got the NO DATA outcome, without a turn; when the PDF is missing
\* the record is passed over without any outcome.
C9_NullRecordWithPdfNoData ==
    proc.script = "validator" =>
        \A i \in DOMAIN proc.trace :
            NullRecord(proc.targets[i]) =>
                IF proc.targets[i].sf \in corpus THEN GotNoData(i)
                ELSE proc.trace[i] = "SKIP"

\* C9 witness: the second record of a pass had no field value and got the
\* NO DATA outcome after the first record got the outcome of a turn.
C9_Witness ==
    /\ proc.script = "validator"
    /\ Len(proc.trace) = 2
    /\ proc.trace[1] = "RESULT"
    /\ NullRecord(proc.targets[2])
    /\ GotNoData(2)

\* The entries of the healing report for one field of one document.
ReportEntries(d, c) ==
    {i \in DOMAIN healing_report :
         healing_report[i].Article = d /\ healing_report[i].Field = c}

\* C10 (as claimed): at the end of an orchestrator run that healed, for every
\* failed file with a record in the snapshot and in the store, the report has
\* exactly one FIXED entry for each field whose value changed and no entry for
\* a field whose value did not change.
C10_EntryIffChanged ==
    (orch.pc = "DONE" /\ orch.failed_files # <<>>) =>
        LET before == orch.before_healing_snapshot.rows
            after == read_excel(output_file)
        IN \A d \in SourceFiles(before) \cap SourceFiles(after) \cap Range(orch.failed_files) :
              \A c \in FieldNames :
                 IF FirstRow(before, d).f[c] # FirstRow(after, d).f[c]
                 THEN /\ Cardinality(ReportEntries(d, c)) = 1
                      /\ \A i \in ReportEntries(d, c) : healing_report[i].Status = "FIXED"
                 ELSE ReportEntries(d, c) = {}

\* The text has an opening brace with a closing brace somewhere after it.
HasBracePair(r) ==
    \E i, j \in DOMAIN r : i < j /\ r[i] = "{" /\ r[j] = "}"

\* The text from the first opening brace to the last closing brace.
BraceSubstring(r) == Slice(r, find(r, "{"), rfind(r, "}") + 1)

\* A validation turn has read and parsed a reply and is about to return.
ValidationParsed ==
    turn.script = "validator" /\ turn.pc = "close" /\ turn.failed = ""

\* C11 (as claimed): a validation turn whose reply text has no opening brace
\* followed by a closing brace returns the "No JSON found" failure, and it
\* returns the "JSON Parse Error" failure only when the text has such a pair
\* and the text between the braces does not parse.
C11_NoJsonFoundWithoutBracePair ==
    ValidationParsed =>
        /\ ~HasBracePair(turn.last_response) =>
              turn.result = ReturnError("No JSON found")
        /\ turn.result = ReturnError("JSON Parse Error") =>
              /\ HasBracePair(turn.last_response)
              /\ json_loads(BraceSubstring(turn.last_response)) = <<>>

\* A step starts a stage process: the process record is new and no iteration
\* of its loop is done.
StageStarted == proc' # proc /\ proc'.trace = <<>> /\ proc'.script # "none"

\* C12: the orchestrator only moves START -> VALIDATE1, VALIDATE1 -> DONE or
\* VALIDATE1 -> RE-EXTRACT (snapshot and purge done), RE-EXTRACT -> VALIDATE2,
\* VALIDATE2 -> DONE (report done); within a run a stage is started only by
\* the first, third and fourth of these moves, the validator, the extractor
\* and the validator respectively, so the extractor runs at most once, the
\* validator at most twice, and nothing follows VALIDATE2 but the report.
C12_OrchestratorOrder ==
    [][ /\ orch'.pc # orch.pc =>
              <<orch.pc, orch'.pc>> \in
                  { <<"idle", "V1">>, <<"DONE", "V1">>, <<"DONE", "idle">>,
                    <<"V1", "DONE">>, <<"V1", "REEXTRACT">>,
                    <<"REEXTRACT", "V2">>, <<"V2", "DONE">> }
        /\ (StageStarted /\ orch'.pc # "idle") =>
              <<orch.pc, orch'.pc, proc'.script>> \in
                  { <<"idle", "V1", "validator">>, <<"DONE", "V1", "validator">>,
                    <<"V1", "REEXTRACT", "extractor">>,
                    <<"REEXTRACT", "V2", "validator">> }
      ]_vars

\* C12 witness: the run is over after a healing round although the second
\* validation gave FAIL to a document.
C12_Witness ==
    /\ orch.pc = "DONE" /\ orch.failed_files # <<>>
    /\ proc.script = "validator"
    /\ \E k \in DOMAIN proc.validation_results :
          proc.validation_results[k].status = "FAIL"

FailureValues ==
    {ReturnNone, ReturnError("No JSON found"), ReturnError("JSON Parse Error")}

\* The reply text read by the turn has no JSON object in it.
Unparsable(r) ==
    find(r, "{") = -1 \/ json_loads(BraceSubstring(r)) = <<>>

\* C14: whichever step of a turn fails, the turn hands a failure value to the
\* stage loop: None for a failed upload, prompt, poll or read, None or an
\* ERROR dict for a reply that does not parse; the process never ends inside
\* a turn, each page opened has given its value to the loop before the next
\* one is opened, and the loop only ends after its last document.
C14_FailuresStayInside ==
    /\ (turn.pc = "close" /\ turn.failed # "") => turn.result = ReturnNone
    /\ (turn.pc = "close" /\ turn.failed = "" /\ Unparsable(turn.last_response))
          => turn.result \in FailureValues
    /\ Len(turn.results) =
          IF turn.pc \in {"loop", "end", "crashed"} THEN Len(turn.opened)
          ELSE Len(turn.opened) - 1
    /\ turn.pc = "end" => Len(turn.results) = turn.n

\* C14 witness: the turn of the first document failed at one of its steps,
\* the loop got None and has opened the page of the second document.
C14_Witness ==
    /\ turn.doc = 2 /\ turn.pc = "goto"
    /\ turn.results = <<ReturnNone>>

\* C15 (as claimed): a corpus scan without limit that got past the launch of
\* the browser and is over has attempted every document of the corpus that
\* had no record in the store when the scan started.
C15_UnrecordedIsAttempted ==
    (/\ proc.script = "extractor" /\ proc.launched /\ ~proc.running
     /\ proc.targets = pdf_files_of(<<>>, 0, proc.start)) =>
        corpus \ SourceFiles(read_excel(proc.start)) \subseteq Attempted

\* C16 (as claimed): at every point of an extraction run, so also when the
\* run is interrupted there, the persisted store holds the record of every
\* document whose turn has succeeded and whose save is done.
C16_SavedRecordsSurvive ==
    proc.script = "extractor" =>
        \A i \in DOMAIN proc.trace :
            proc.trace[i] = "RESULT" => proc.targets[i] \in SourceFiles(output_file)

\* C17: every turn terminates: a turn that has begun for a document returns,
\* with data or with a failure value, and its page is closed; the completion
\* poll never goes past its ceiling of iterations.
C17_TurnTerminates ==
    (turn.pc = "goto") ~> (turn.pc = "loop" /\ Len(turn.results) = turn.doc)

\* A turn whose completion poll ran all its iterations without seeing the
\* reply complete, and went on to read the response.
C17_Witness ==
    turn.pc = "read" /\ turn.polls = PollCeiling

\* C18: in either stage loop the turns are strictly sequential: at most one
\* per-document page is open, it is the page of the current document, the
\* turns of all earlier documents have returned, and between two turns (also
\* after a failed one) no per-document page is open.
C18_OnePageAtATime ==
    /\ Cardinality(turn.pages) <= 1
    /\ turn.pages \subseteq {turn.doc}
    /\ Len(turn.results) >= turn.doc - 1
    /\ turn.opened = [i \in 1..turn.doc |-> i]
    /\ turn.pc \in {"loop", "end"} =>
          turn.pages = {} /\ Len(turn.results) = turn.doc

\* The page of the second document is open and about to be closed, after the
\* turn of the first document has returned and its page was closed.
C18_Witness ==
    turn.pages = {2} /\ turn.pc = "close" /\ Len(turn.results) = 1

\* C19: a reconciled status of PASS comes with no discrepancy whose severity
\* is CRITICAL or missing; when the agent reported PASS or FAIL and listed such
\* a discrepancy, the reconciled status is FAIL.
C19_PassHasNoCritical ==
    data # <<>> =>
        /\ data[1].status = "PASS" =>
              ~HasSeverity(data[1].discrepancies, {"CRITICAL", Absent})
        /\ (/\ agent_reply.status \in {"PASS", "FAIL"}
            /\ HasSeverity(agent_reply.discrepancies, {"CRITICAL", Absent})) =>
              data[1].status = "FAIL"

\* The agent said FAIL and listed only items that are not marked CRITICAL, one
\* of them without a severity: downgraded at first, the status returned is FAIL.
C19_Witness ==
    /\ data # <<>>
    /\ agent_reply.status = "FAIL"
    /\ HasSeverity(agent_reply.discrepancies, {Absent})
    /\ ~HasSeverity(agent_reply.discrepancies, {"CRITICAL"})
    /\ data[1].status = "FAIL"

\* Every discrepancy of the list is MINOR.
AllMinor(D) == \A i \in DOMAIN D : D[i].severity = "MINOR"

\* C20 (as claimed): whenever the agent reported FAIL and every discrepancy it
\* listed is MINOR, the reconciled status is PASS.
C20_FailAllMinorPasses ==
    (data # <<>> /\ agent_reply.status = "FAIL" /\ AllMinor(agent_reply.discrepancies))
        => data[1].status = "PASS"

\* C20 (amended): whenever the agent reported FAIL and listed at least one
\* discrepancy, all of them MINOR, the reconciled status is PASS; a FAIL that
\* lists nothing stays FAIL.
C20_Downgraded ==
    (data # <<>> /\ agent_reply.status = "FAIL" /\ AllMinor(agent_reply.discrepancies))
        => data[1].status = IF agent_reply.discrepancies = <<>> THEN "FAIL" ELSE "PASS"

\* The agent said FAIL, listed two or more MINOR items and nothing else, and
\* the call returned PASS.
C20_Witness ==
    /\ data # <<>>
    /\ agent_reply.status = "FAIL"
    /\ Len(agent_reply.discrepancies) >= 2
    /\ AllMinor(agent_reply.discrepancies)
    /\ data[1].status = "PASS"

\* The documents to which the finished validation pass gave FAIL.
FailedByPass == {r.sf : r \in {x \in Range(proc.validation_results) : x.status = "FAIL"}}

\* C21 (as claimed): when the orchestrator leaves VALIDATE1, the set F it
\* computes is exactly the set of documents to which that pass gave FAIL, each
\* listed once; without such a document the run ends and nothing is purged.
C21_FIsFailedByValidate1 ==
    [][orch.pc = "V1" /\ orch'.pc # "V1" =>
          IF FailedByPass = {}
          THEN orch'.pc = "DONE"
          ELSE /\ orch'.pc = "REEXTRACT"
               /\ Range(orch'.failed_files) = FailedByPass
               /\ Len(orch'.failed_files) = Cardinality(FailedByPass)]_vars

RecordsOf(store, filename) == {i \in DOMAIN store : store[i].sf = filename}

\* C23 (as claimed, the part on the number of records): at DONE after a
\* healing cycle, every failed file that had a record before the purge has
\* exactly one record in the store.
C23_HealedHasOneRecord ==
    (orch.pc = "DONE" /\ orch.failed_files # <<>>) =>
        \A filename \in SourceFiles(orch.before_healing_snapshot.rows) :
            Cardinality(RecordsOf(output_file, filename)) = 1

\* Some failed file has a record in the snapshot and in the store, and a
\* field whose value is not the same in the two.
SomeFieldChanged ==
    LET before == orch.before_healing_snapshot.rows
        after == read_excel(output_file)
    IN \E d \in SourceFiles(before) \cap SourceFiles(after) \cap Range(orch.failed_files) :
          \E c \in FieldNames : FirstRow(before, d).f[c] # FirstRow(after, d).f[c]

\* C24 (as claimed): the healing report is written only by the report step
\* that ends an orchestrator run, so at most once per run, and only when some
\* field of a failed file with a record before and after healing changed;
\* what is written then is not empty.
C24_ReportOnlyIfChanged ==
    [][healing_report' # healing_report =>
          /\ orch.pc = "V2" /\ orch'.pc = "DONE"
          /\ healing_report' # <<>>
          /\ SomeFieldChanged]_vars

\* C25: a validation pass considers, in the order of the store, exactly the
\* records whose Source File is in the target list when one is given, whatever
\* the limit; without a target list, every record, or the first N under a
\* limit N.  Its turns and outcomes are for considered records only, one
\* after the other.
C25_ValidationTargets ==
    proc.script = "validator" =>
        LET store == read_excel(proc.start)
            InTargets(r) == r.sf \in Range(proc.files)
        IN /\ proc.files # <<>> => proc.targets = SelectSeq(store, InTargets)
           /\ (proc.files = <<>> /\ proc.limit = 0) => proc.targets = store
           /\ (proc.files = <<>> /\ proc.limit # 0) =>
                 /\ Len(proc.targets) = Min(proc.limit, Len(store))
                 /\ \A i \in DOMAIN proc.targets : proc.targets[i] = store[i]
           /\ Len(proc.trace) <= Len(proc.targets)
           /\ proc.df = SubSeq(proc.targets, Len(proc.trace) + 1, Len(proc.targets))
           /\ \A i \in DOMAIN proc.validation_results :
                 proc.validation_results[i].sf \in SourceFiles(proc.targets)

\* A pass started with a target list and a limit smaller than the number of
\* targeted records has had a turn for each of them.
C25_Witness ==
    /\ proc.script = "validator" /\ ~proc.running
    /\ proc.files # <<>> /\ proc.limit # 0
    /\ Len(proc.targets) > proc.limit
    /\ Len(proc.trace) = Len(proc.targets)

\* C26: in a turn of either stage the prompt is written and submitted only
\* after the path was given to the file chooser; a turn that found no upload
\* button or no upload menu item, or whose file selection failed, returns None
\* and has neither written nor submitted the prompt.
C26_PromptOnlyAfterUpload ==
    /\ turn.done \cap {"fill", "submit"} # {} => "upload" \in turn.done
    /\ "submit" \in turn.done => "fill" \in turn.done
    /\ turn.failed \in {"plus", "menu", "chooser"} =>
          /\ turn.pc \in {"close", "loop", "end", "crashed"}
          /\ turn.result = ReturnNone
          /\ turn.done \cap {"fill", "submit"} = {}

\* The file chooser did not open for the second document of an extraction
\* run: the turn is about to return None, with no prompt written.
C26_Witness ==
    /\ turn.script = "extractor" /\ turn.doc = 2
    /\ turn.failed = "chooser" /\ turn.pc = "close"
    /\ turn.done = {}

\* C27: after a navigation that timed out the turn is at the upload, after an
\* ingestion wait that ran out it is at the prompt, after a poll that reached
\* its ceiling it is at the reading of the response; in none of the three
\* cases has the turn failed.
C27_TimeoutsFallThrough ==
    /\ "goto" \in turn.timeouts => turn.pc = "plus" /\ turn.failed = ""
    /\ "ingest" \in turn.timeouts =>
          turn.pc = "prompt" /\ turn.failed = "" /\ "upload" \in turn.done
    /\ "poll" \in turn.timeouts =>
          turn.pc = "read" /\ turn.failed = "" /\ "submit" \in turn.done
    /\ turn.failed \notin {"goto", "ingest"}

\* A validation turn whose navigation timed out is at the upload.
C27_Witness ==
    /\ turn.script = "validator"
    /\ turn.timeouts = {"goto"} /\ turn.pc = "plus" /\ turn.pages = {turn.doc}

C29_SourceIsTheTurnsDocument ==
    \A i \in DOMAIN turn.stored : turn.stored[i].source = <<turn.stored[i].doc>>

\* The reply to the first document named another file as its 'Source File';
\* the loop has kept a dict for the document and is about to go on.
C29_Witness ==
    /\ turn.pc = "loop" /\ turn.doc = 1
    /\ turn.reply_source = ForeignSource
    /\ Len(turn.stored) = 1

\* C30 (as claimed): during and after a validation pass, targeted or not,
\* the persisted store holds exactly the records, with exactly the field
\* values, it held when the pass started.
C30_ValidationLeavesStore ==
    proc.script = "validator" => output_file = proc.start

\* C31 (as claimed): when the orchestrator leaves VALIDATE1, every document
\* to which that pass did not give FAIL (PASS, NO DATA, ERROR, or no outcome)
\* keeps its records in the store and is not handed to the extractor; when
\* the pass gave FAIL to no document, the run ends, no stage is started and
\* the store is left as it is.
C31_OnlyFailHeals ==
    [][orch.pc = "V1" /\ orch'.pc # "V1" =>
          /\ \A d \in AllDocs \ FailedByPass :
                /\ Cardinality(RecordsOf(output_file', d))
                      = Cardinality(RecordsOf(output_file, d))
                /\ proc'.script = "extractor" => d \notin Range(proc'.targets)
          /\ FailedByPass = {} =>
                /\ orch'.pc = "DONE"
                /\ output_file' = output_file
                /\ proc' = proc]_vars

\* C32 (as claimed): a turn of an extraction run only adds records: every
\* record the persisted store held before the turn is still there, in its
\* place and with the same field values, and a turn that fails leaves the store
\* exactly as it was.
C32_ExtractionOnlyAdds ==
    [][/\ proc.script = "extractor" /\ proc'.script = "extractor"
       /\ Len(proc'.trace) = Len(proc.trace) + 1
       => /\ Len(output_file') >= Len(output_file)
          /\ \A i \in DOMAIN output_file : output_file'[i] = output_file[i]
          /\ proc'.trace[Len(proc'.trace)] = "FAILED"
                => output_file' = output_file]_vars

====
